---- MODULE Spec2Model ----
(***************************************************************************)
(* Sentinel-Alpha (src/main.py): the mean-reversion control loop           *)
(* SentinelAlpha.run with its rolling price window, z-score signal, the    *)
(* 24-hour drawdown guard and the shadow/live trade dispatch.              *)
(*                                                                         *)
(* Numbers.  Prices are integers in tenths of a USD, wallet values in whole *)
(* USD.  A z-score is kept as the pair (num, rad) standing for             *)
(* num / sqrt(rad), which is what (price - mean) / std(ddof=0) equals over *)
(* a window of n points: num = n*price - sum, rad = n*sumsq - sum^2.       *)
(* Fractions of the configuration are kept in percent.  The code computes  *)
(* in binary64.  For the whole-USD prices (Prices) and wallet values the    *)
(* sums, means and deviations are exact in binary64 and the signals of the *)
(* model are those of the code.  A price that is no binary fraction (0.1)  *)
(* is fed only in SpecFlat, into windows of equal prices, where the        *)
(* rounding of the mean decides the test rolling_std == 0 (FlatZ).  Clock  *)
(* readings are in hours.  The index labels of the price series are        *)
(* distinct clock readings, so the series is modelled by its values in     *)
(* insertion order.                                                        *)
(***************************************************************************)
EXTENDS Integers, Sequences, FiniteSets, TLC

VARIABLES
    config,                \* Config: the fields the loop reads
    wallet_provider,       \* self.wallet_provider: "None", "WithTrade", "NoTrade"
    running,               \* self.running
    prices,                \* self.prices (values, insertion order)
    wallet_value_history,  \* self.wallet_value_history: deque of <<time, value>>
    pc,                    \* position of run()
    price,                 \* run(): price
    wallet_value,          \* run(): wallet_value
    z_score,               \* run(): z_score
    signal,                \* run(): signal
    halt,                  \* last result of check_daily_stop_loss
    now,                   \* last reading of datetime.now(timezone.utc), hours
    log,                   \* records emitted through self.logger, by kind
    trade_calls,           \* invocations of wallet_provider.trade so far
    last_trade,            \* the last wallet_provider.trade call and its outcome
    trade_details,         \* execute_shadow_trade: the last trade_details built
    ticks,                 \* loop iterations begun
    wallet_failed,         \* this tick's valuation fetch raised
    snapshots,             \* every <<time, value>> recorded so far, evicted or not
    clock_monotone,        \* no clock reading so far was below an earlier one
    slept                  \* seconds spent in time.sleep so far

vars == <<config, wallet_provider, running, prices, wallet_value_history, pc,
          price, wallet_value, z_score, signal, halt, now, log, trade_calls,
          last_trade, trade_details, ticks, wallet_failed, snapshots,
          clock_monotone, slept>>

----------------------------------------------------------------------------
(* Bounds of the exploration. *)

\* iterations of the loop of run()
MaxTicks == 2

\* calls of check_daily_stop_loss in SpecGuard
MaxSnapshots == 4

\* calls of update_series in SpecSeries
MaxInserts == 6

\* calls of execute_shadow_trade in SpecSizing
MaxCalls == 2

(* Inputs of the environment. *)

\* tenths of a USD in one USD
PriceUnitsPerUsd == 10

\* what the price feed can return as a number, in tenths of a USD:
\* 0.0, 100.0 and 130.0
Prices == {0, 1000, 1300}

\* the same for SpecFlat: also 0.1
FlatPrices == Prices \cup {1}

\* what the wallet provider can report, in USD
WalletValues == {0, 950, 960, 1000}

\* hours between two successive readings of the clock
ClockSteps == {1, 24}

\* the same for SpecGuard, where the wall clock can also be set back
GuardClockSteps == ClockSteps \cup {-1}

(* Configuration values (environment variables read by Config). *)

WindowPoints == {-1, 0, 1, 2, 3}

\* <<z_buy_threshold, z_sell_threshold>>, each a fraction <<numerator, denominator>>
Thresholds == {<< <<-1, 2>>, <<1, 2>> >>, << <<-1, 1>>, <<1, 1>> >>}

\* the same for SpecSeries: also the defaults -2.0 and 2.0, and a buy threshold
\* above the sell threshold
SeriesThresholds ==
    Thresholds \cup {<< <<-2, 1>>, <<2, 1>> >>, << <<1, 1>>, <<-1, 1>> >>}

PollSeconds == {-1, 60}

\* MAX_TRADE_FRACTION default 0.02, in percent
MaxTradeFractionPct == 2

\* DAILY_STOP_LOSS_FRACTION default 0.05, in percent
DailyStopLossPct == 5

\* SIMULATED_WALLET_USD default
SimulatedWalletUsd == 10000

\* timedelta(hours=24)
DayHours == 24

\* round(trade_notional / price, 8): decimal places of an asset quantity
AssetDecimals == 8

\* the prices execute_shadow_trade is called with in SpecSizing: also 50000.0
SizingPrices == Prices \cup {500000}

\* the portfolio values execute_shadow_trade is called with in SpecSizing
SizingValues == {950, 1000, SimulatedWalletUsd}

\* the values check_daily_stop_loss is called with in SpecGuard
GuardValues == WalletValues \cup {940, SimulatedWalletUsd}

----------------------------------------------------------------------------
(* Optional values. *)

None == [some |-> FALSE, v |-> 0]

Some(x) == [some |-> TRUE, v |-> x]

ZNone == [kind |-> "none", num |-> 0, rad |-> 1]

ZNaN == [kind |-> "nan", num |-> 0, rad |-> 1]

ZNum(n, r) == [kind |-> "num", num |-> n, rad |-> r]

LogKinds == {"tick", "shadow", "live", "critical", "price_error",
             "wallet_error", "trade_error", "no_trade_warning"}

Logged(kind) == [log EXCEPT ![kind] = @ + 1]

NoTrade == [side |-> "NONE", amount |-> <<0, 0>>, result |-> "none"]

NoDetails ==
    [signal |-> "NONE", trade_notional_cents |-> 0, trade_size_asset |-> <<0, 0>>]

----------------------------------------------------------------------------
(* Arithmetic helpers. *)

RECURSIVE SumSeq(_)
SumSeq(s) == IF s = <<>> THEN 0 ELSE Head(s) + SumSeq(Tail(s))

RECURSIVE SumSqSeq(_)
SumSqSeq(s) == IF s = <<>> THEN 0 ELSE Head(s) * Head(s) + SumSqSeq(Tail(s))

\* l < r * sqrt(rad), for rad >= 0, decided on the squares
LtRoot(l, r, rad) ==
    IF l < 0
    THEN (IF r >= 0 THEN TRUE ELSE l * l > r * r * rad)
    ELSE (IF r <= 0 THEN FALSE ELSE l * l < r * r * rad)

RECURSIVE Pow10(_)
Pow10(k) == IF k = 0 THEN 1 ELSE 10 * Pow10(k - 1)

\* the first k decimal digits of r / b after the point, and the remainder,
\* for 0 <= r < b (long division)
RECURSIVE LongDiv(_, _, _, _)
LongDiv(acc, r, b, k) ==
    IF k = 0 THEN <<acc, r>>
    ELSE LongDiv(acc * 10 + (r * 10) \div b, (r * 10) % b, b, k - 1)

\* RoundDiv that cuts the digits after the k-th off
RoundDivDown(a, b, k) == <<a \div b, LongDiv(0, a % b, b, k)[1]>>

\* round(a / b, k) for a >= 0 and b > 0, to nearest with ties to even, as
\* <<whole part, the k decimal digits after the point>>
RoundDiv(a, b, k) ==
    LET d    == LongDiv(0, a % b, b, k)
        q    == a \div b
        f    == d[1]
        r    == d[2]
        up   == 2 * r > b \/ (2 * r = b /\ f % 2 = 1)
        frac == IF up THEN f + 1 ELSE f
    IN  IF frac = Pow10(k) THEN <<q + 1, 0>> ELSE <<q, frac>>

----------------------------------------------------------------------------
(* update_series: the rolling window and the z-score. *)

\* self.prices.iloc[-n:] ; for n = 0 the slice [-0:] is the whole series and
\* for n < 0 it is [k:] with k = -n, which drops the first k points
ILocTail(s, n) ==
    IF n > 0
    THEN SubSeq(s, (IF Len(s) > n THEN Len(s) - n + 1 ELSE 1), Len(s))
    ELSE SubSeq(s, 1 - n, Len(s))

\* the series after update_series(p)
SeriesAfter(s, p, n) ==
    LET appended == Append(s, p)
    IN  IF Len(appended) < n THEN appended ELSE ILocTail(appended, n)

\* The z-score the code computes over a window of n equal prices p.  In
\* binary64 the mean fl(fl(p + ... + p) / n) is p again, the std is 0 and the
\* code returns 0.0, except where the sum rounds: 0.1 + 0.1 + 0.1 is
\* 0.30000000000000004 and a third of it 0.10000000000000002, so the std is
\* 2^-56 and the code returns (0.1 - mean) / std = -1.0; for six and for seven
\* points of 0.1 the mean is 0.09999999999999999 and the code returns 1.0.
\* Windows of up to seven points.
FlatZ(p, n) ==
    IF p = 1 /\ n = 3 THEN -1
    ELSE IF p = 1 /\ n \in {6, 7} THEN 1
    ELSE 0

\* (price - mean) / std(ddof=0) over the window w, 0.0 when the std is 0;
\* mean and std of an empty series are NaN
ZOfWindow(w, p) ==
    LET n   == Len(w)
        sum == SumSeq(w)
        rad == n * SumSqSeq(w) - sum * sum
    IN  IF n = 0 THEN ZNaN
        ELSE IF rad = 0 THEN ZNum(FlatZ(p, n), 1)
        ELSE ZNum(n * p - sum, rad)

\* ZScoreAfter without the warm-up return
ZScoreAfterNoWarmUp(s, p, n) == ZOfWindow(SeriesAfter(s, p, n), p)

\* the value update_series(p) returns
ZScoreAfter(s, p, n) ==
    IF Len(Append(s, p)) < n THEN ZNone ELSE ZOfWindow(SeriesAfter(s, p, n), p)

----------------------------------------------------------------------------
(* generate_signal; a comparison with NaN is false *)

\* GenerateSignal with inclusive comparisons
GenerateSignalInclusive(z, buy, sell) ==
    IF z.kind = "none" THEN "NONE"
    ELSE IF z.kind = "num" /\ ~LtRoot(-z.num * buy[2], -buy[1], z.rad) THEN "BUY"
    ELSE IF z.kind = "num" /\ ~LtRoot(z.num * sell[2], sell[1], z.rad) THEN "SELL"
    ELSE "NONE"

\* GenerateSignal with the two sides exchanged
GenerateSignalSwapped(z, buy, sell) ==
    IF z.kind = "none" THEN "NONE"
    ELSE IF z.kind = "num" /\ LtRoot(z.num * buy[2], buy[1], z.rad) THEN "SELL"
    ELSE IF z.kind = "num" /\ LtRoot(-z.num * sell[2], -sell[1], z.rad) THEN "BUY"
    ELSE "NONE"

GenerateSignal(z, buy, sell) ==
    IF z.kind = "none" THEN "NONE"
    ELSE IF z.kind = "num" /\ LtRoot(z.num * buy[2], buy[1], z.rad) THEN "BUY"
    ELSE IF z.kind = "num" /\ LtRoot(-z.num * sell[2], -sell[1], z.rad) THEN "SELL"
    ELSE "NONE"

----------------------------------------------------------------------------
(* check_daily_stop_loss *)

\* Evict that also drops the entry exactly 24 hours old
RECURSIVE EvictInclusive(_, _)
EvictInclusive(h, cutoff) ==
    IF h # <<>> /\ Head(h)[1] <= cutoff THEN EvictInclusive(Tail(h), cutoff) ELSE h

\* while history and history[0][0] < cutoff: popleft()
RECURSIVE Evict(_, _)
Evict(h, cutoff) ==
    IF h # <<>> /\ Head(h)[1] < cutoff THEN Evict(Tail(h), cutoff) ELSE h

\* the history after recording (t, v)
HistoryAfter(h, t, v) == Evict(Append(h, <<t, v>>), t - DayHours)

\* StopLossHalt with a strict comparison
StopLossHaltStrict(h, v) ==
    IF h = <<>> THEN FALSE
    ELSE LET day_start_value == h[1][2]
         IN  IF day_start_value <= 0 THEN FALSE
             ELSE (day_start_value - v) * 100 > DailyStopLossPct * day_start_value

\* the result of check_daily_stop_loss, on the history after recording
StopLossHalt(h, v) ==
    IF h = <<>> THEN FALSE
    ELSE LET day_start_value == h[1][2]
         IN  IF day_start_value <= 0 THEN FALSE
             ELSE (day_start_value - v) * 100 >= DailyStopLossPct * day_start_value

\* check_daily_stop_loss(v), the clock having advanced by d since it was last read
StopLossCall(v, d) ==
    /\ now' = now + d
    /\ clock_monotone' = (clock_monotone /\ d >= 0)
    /\ snapshots' = Append(snapshots, <<now', v>>)
    /\ wallet_value_history' = HistoryAfter(wallet_value_history, now', v)
    /\ halt' = StopLossHalt(wallet_value_history', v)
    /\ log' = IF halt' THEN Logged("critical") ELSE log

----------------------------------------------------------------------------
(* execute_shadow_trade *)

\* round(wallet_value * max_trade_fraction, 2), in cents
TradeNotionalCents(wv) == wv * MaxTradeFractionPct

\* round(trade_notional / price, 8) as <<whole units of the asset, the 8
\* decimal digits after the point>>; price # 0
QuoteAmount(wv, p) ==
    RoundDiv(wv * MaxTradeFractionPct * PriceUnitsPerUsd, 100 * p, AssetDecimals)

\* LogAfterTradeError that logs the error alone
LogAfterTradeErrorOnly == Logged("trade_error")

\* the records of the except branch: the error, then the shadow trade
LogAfterTradeError == [log EXCEPT !["trade_error"] = @ + 1, !["shadow"] = @ + 1]

----------------------------------------------------------------------------
(* The state after SentinelAlpha(Config()) and install_signal_handlers. *)

ConfigOf(w, t, dry, poll) ==
    [z_window_points |-> w,
     z_buy_threshold |-> t[1],
     z_sell_threshold |-> t[2],
     dry_run |-> dry,
     price_poll_seconds |-> poll]

Providers == {"None", "WithTrade", "NoTrade"}

InitWith(c, provider) ==
    /\ config = c
    /\ wallet_provider = provider
    /\ running = TRUE
    /\ prices = <<>>
    /\ wallet_value_history = <<>>
    /\ pc = "loop"
    /\ price = None
    /\ wallet_value = 0
    /\ z_score = ZNone
    /\ signal = "NONE"
    /\ halt = FALSE
    /\ now = 0
    /\ log = [k \in LogKinds |-> 0]
    /\ trade_calls = 0
    /\ last_trade = NoTrade
    /\ trade_details = NoDetails
    /\ ticks = 0
    /\ wallet_failed = FALSE
    /\ snapshots = <<>>
    /\ clock_monotone = TRUE
    /\ slept = 0

Init ==
    \E w \in WindowPoints, t \in Thresholds, dry \in BOOLEAN, poll \in PollSeconds,
       provider \in Providers :
        InitWith(ConfigOf(w, t, dry, poll), provider)

----------------------------------------------------------------------------
(* run() *)

\* while self.running:
LoopTest ==
    /\ pc = "loop"
    /\ IF running
       THEN /\ ticks < MaxTicks
            /\ ticks' = ticks + 1
            /\ pc' = "fetch_price"
       ELSE /\ pc' = "stopped"
            /\ ticks' = ticks
    /\ UNCHANGED <<config, wallet_provider, running, prices, wallet_value_history,
                   price, wallet_value, z_score, signal, halt, now, log,
                   trade_calls, last_trade, trade_details, wallet_failed,
                   snapshots, clock_monotone, slept>>

\* price = self.fetch_price(); if price is None: ... (the sleep is SleepRetry)
FetchPrice ==
    /\ pc = "fetch_price"
    /\ \/ /\ price' = None
          /\ log' = Logged("price_error")
          /\ pc' = "sleep_retry"
       \/ /\ \E p \in Prices : price' = Some(p)
          /\ log' = log
          /\ pc' = "get_wallet_value"
    /\ UNCHANGED <<config, wallet_provider, running, prices, wallet_value_history,
                   wallet_value, z_score, signal, halt, now, trade_calls,
                   last_trade, trade_details, ticks, wallet_failed, snapshots,
                   clock_monotone, slept>>

\* time.sleep(self.config.price_poll_seconds), which raises ValueError on a
\* negative length; the error leaves run()
SleepOutcome == IF config.price_poll_seconds < 0 THEN "crashed" ELSE "loop"

\* the seconds slept once time.sleep has returned or raised.  A signal that
\* arrives during the sleep runs _handler, which raises nothing, and the sleep
\* then goes on for the rest of the interval (PEP 475): the sleep that
\* returns has lasted the whole interval, whatever running is by then
SleptAfter ==
    IF config.price_poll_seconds < 0 THEN slept
    ELSE slept + config.price_poll_seconds

\* time.sleep(...); continue   after a failed price fetch
SleepRetry ==
    /\ pc = "sleep_retry"
    /\ pc' = SleepOutcome
    /\ slept' = SleptAfter
    /\ UNCHANGED <<config, wallet_provider, running, prices, wallet_value_history,
                   price, wallet_value, z_score, signal, halt, now, log,
                   trade_calls, last_trade, trade_details, ticks, wallet_failed,
                   snapshots, clock_monotone>>

\* wallet_value = self.get_wallet_value(): the provider's figure, or the
\* simulated figure when there is no provider or when the provider raises
\* (logged as an error)
GetWalletValue ==
    /\ pc = "get_wallet_value"
    /\ IF wallet_provider = "None"
       THEN /\ wallet_value' = SimulatedWalletUsd
            /\ wallet_failed' = FALSE
            /\ log' = log
       ELSE \/ /\ \E v \in WalletValues : wallet_value' = v
               /\ wallet_failed' = FALSE
               /\ log' = log
            \/ /\ wallet_value' = SimulatedWalletUsd
               /\ wallet_failed' = TRUE
               /\ log' = Logged("wallet_error")
    /\ pc' = "check_daily_stop_loss"
    /\ UNCHANGED <<config, wallet_provider, running, prices, wallet_value_history,
                   price, z_score, signal, halt, now, trade_calls, last_trade,
                   trade_details, ticks, snapshots, clock_monotone, slept>>

\* AfterCheck without the break: the halted tick goes on
AfterCheckNoBreak(h) == "update_series"

\* where run() goes after check_daily_stop_loss returned h
AfterCheck(h) == IF h THEN "stopped" ELSE "update_series"

\* if self.check_daily_stop_loss(wallet_value): self.running = False; break
CheckDailyStopLoss ==
    /\ pc = "check_daily_stop_loss"
    /\ \E d \in ClockSteps : StopLossCall(wallet_value, d)
    /\ running' = IF halt' THEN FALSE ELSE running
    /\ pc' = AfterCheck(halt')
    /\ UNCHANGED <<config, wallet_provider, prices, price, wallet_value, z_score,
                   signal, trade_calls, last_trade, trade_details, ticks,
                   wallet_failed, slept>>

\* z_score = self.update_series(price)
UpdateSeries ==
    /\ pc = "update_series"
    /\ prices' = SeriesAfter(prices, price.v, config.z_window_points)
    /\ z_score' = ZScoreAfter(prices, price.v, config.z_window_points)
    /\ pc' = "generate_signal"
    /\ UNCHANGED <<config, wallet_provider, running, wallet_value_history, price,
                   wallet_value, signal, halt, now, log, trade_calls, last_trade,
                   trade_details, ticks, wallet_failed, snapshots, clock_monotone,
                   slept>>

\* GenerateSignalStep that goes on to execute_shadow_trade without a signal
GenerateSignalStepAlwaysExecute ==
    /\ pc = "generate_signal"
    /\ signal' = GenerateSignal(z_score, config.z_buy_threshold,
                                config.z_sell_threshold)
    /\ log' = Logged("tick")
    /\ pc' = "execute_shadow_trade"
    /\ UNCHANGED <<config, wallet_provider, running, prices, wallet_value_history,
                   price, wallet_value, z_score, halt, now, trade_calls, last_trade,
                   trade_details, ticks, wallet_failed, snapshots, clock_monotone,
                   slept>>

\* GenerateSignalStep that logs the tick summary only when there is a signal
GenerateSignalStepLogOnSignal ==
    /\ pc = "generate_signal"
    /\ signal' = GenerateSignal(z_score, config.z_buy_threshold,
                                config.z_sell_threshold)
    /\ log' = IF signal' # "NONE" THEN Logged("tick") ELSE log
    /\ pc' = IF signal' # "NONE" THEN "execute_shadow_trade" ELSE "sleep"
    /\ UNCHANGED <<config, wallet_provider, running, prices, wallet_value_history,
                   price, wallet_value, z_score, halt, now, trade_calls, last_trade,
                   trade_details, ticks, wallet_failed, snapshots, clock_monotone,
                   slept>>

\* signal = self.generate_signal(z_score); self.logger.info("Tick | ...");
\* if signal is not None: ...
GenerateSignalStep ==
    /\ pc = "generate_signal"
    /\ signal' = GenerateSignal(z_score, config.z_buy_threshold,
                                config.z_sell_threshold)
    /\ log' = Logged("tick")
    /\ pc' = IF signal' # "NONE" THEN "execute_shadow_trade" ELSE "sleep"
    /\ UNCHANGED <<config, wallet_provider, running, prices, wallet_value_history,
                   price, wallet_value, z_score, halt, now, trade_calls, last_trade,
                   trade_details, ticks, wallet_failed, snapshots, clock_monotone,
                   slept>>

\* self.execute_shadow_trade(signal, price, wallet_value)
ExecuteShadowTrade ==
    /\ pc = "execute_shadow_trade"
    /\ IF price.v = 0
       THEN \* trade_notional / price raises ZeroDivisionError, which leaves run()
            /\ pc' = "crashed"
            /\ UNCHANGED <<log, trade_calls, last_trade, trade_details>>
       ELSE /\ trade_details' =
                  [signal |-> signal,
                   trade_notional_cents |-> TradeNotionalCents(wallet_value),
                   trade_size_asset |-> QuoteAmount(wallet_value, price.v)]
            /\ pc' = "sleep"
            /\ IF config.dry_run \/ wallet_provider = "None"
               THEN /\ log' = Logged("shadow")
                    /\ UNCHANGED <<trade_calls, last_trade>>
               ELSE IF wallet_provider = "WithTrade"
               THEN /\ trade_calls' = trade_calls + 1
                    /\ \E result \in {"tx", "raised"} :
                          /\ last_trade' =
                                [side |-> signal,
                                 amount |-> QuoteAmount(wallet_value, price.v),
                                 result |-> result]
                          /\ log' = IF result = "tx" THEN Logged("live")
                                    ELSE LogAfterTradeError
               ELSE /\ log' = Logged("no_trade_warning")
                    /\ UNCHANGED <<trade_calls, last_trade>>
    /\ UNCHANGED <<config, wallet_provider, running, prices, wallet_value_history,
                   price, wallet_value, z_score, signal, halt, now, ticks,
                   wallet_failed, snapshots, clock_monotone, slept>>

\* time.sleep(self.config.price_poll_seconds)   at the end of a tick
Sleep ==
    /\ pc = "sleep"
    /\ pc' = SleepOutcome
    /\ slept' = SleptAfter
    /\ UNCHANGED <<config, wallet_provider, running, prices, wallet_value_history,
                   price, wallet_value, z_score, signal, halt, now, log,
                   trade_calls, last_trade, trade_details, ticks, wallet_failed,
                   snapshots, clock_monotone>>

\* _handler(_sig, _frame): bot.running = False, while the process lives
SignalHandler ==
    /\ pc \notin {"stopped", "crashed"}
    /\ running' = FALSE
    /\ UNCHANGED <<config, wallet_provider, prices, wallet_value_history, pc,
                   price, wallet_value, z_score, signal, halt, now, log,
                   trade_calls, last_trade, trade_details, ticks, wallet_failed,
                   snapshots, clock_monotone, slept>>

Next ==
    \/ LoopTest
    \/ FetchPrice
    \/ SleepRetry
    \/ GetWalletValue
    \/ CheckDailyStopLoss
    \/ UpdateSeries
    \/ GenerateSignalStep
    \/ ExecuteShadowTrade
    \/ Sleep
    \/ SignalHandler

Spec == Init /\ [][Next]_vars

\* the steps of run() itself, without the arrival of a signal
LoopStep ==
    \/ LoopTest
    \/ FetchPrice
    \/ SleepRetry
    \/ GetWalletValue
    \/ CheckDailyStopLoss
    \/ UpdateSeries
    \/ GenerateSignalStep
    \/ ExecuteShadowTrade
    \/ Sleep

\* run() under an interpreter that goes on executing it: every external call
\* (price request, wallet request, trade, sleep) returns or raises
SpecLive == Init /\ [][Next]_vars /\ WF_vars(LoopStep)

----------------------------------------------------------------------------
(* The drawdown guard on its own: the calls check_daily_stop_loss receives  *)
(* from run(), one per tick until it returns halt, with any reported value  *)
(* and a wall clock that may be set back between two readings.              *)

GuardInit == InitWith(ConfigOf(3, << <<-1, 1>>, <<1, 1>> >>, TRUE, 60), "WithTrade")

GuardCall ==
    /\ ~halt
    /\ ticks < MaxSnapshots
    /\ ticks' = ticks + 1
    /\ \E v \in GuardValues, d \in GuardClockSteps :
          /\ wallet_value' = v
          /\ StopLossCall(v, d)
    /\ UNCHANGED <<config, wallet_provider, running, prices, pc, price, z_score,
                   signal, trade_calls, last_trade, trade_details, wallet_failed,
                   slept>>

SpecGuard == GuardInit /\ [][GuardCall]_vars

----------------------------------------------------------------------------
(* The signal engine on its own: the calls update_series and                *)
(* generate_signal receive from run(), one pair per tick that passes the    *)
(* guard, for every window size and threshold pair.                         *)

SeriesInit ==
    \E w \in WindowPoints, t \in SeriesThresholds :
        InitWith(ConfigOf(w, t, TRUE, 60), "None")

FeedPrice ==
    /\ ticks < MaxInserts
    /\ ticks' = ticks + 1
    /\ \E p \in Prices :
          /\ price' = Some(p)
          /\ prices' = SeriesAfter(prices, p, config.z_window_points)
          /\ z_score' = ZScoreAfter(prices, p, config.z_window_points)
    /\ signal' = GenerateSignal(z_score', config.z_buy_threshold,
                                config.z_sell_threshold)
    /\ UNCHANGED <<config, wallet_provider, running, wallet_value_history, pc,
                   wallet_value, halt, now, log, trade_calls, last_trade,
                   trade_details, wallet_failed, snapshots, clock_monotone, slept>>

SpecSeries == SeriesInit /\ [][FeedPrice]_vars

----------------------------------------------------------------------------
(* The signal engine on a flat market: the feed returns the same price in   *)
(* every tick.                                                              *)

FeedSamePrice ==
    /\ ticks < MaxInserts
    /\ ticks' = ticks + 1
    /\ \E p \in FlatPrices :
          /\ ticks > 0 => p = price.v
          /\ price' = Some(p)
          /\ prices' = SeriesAfter(prices, p, config.z_window_points)
          /\ z_score' = ZScoreAfter(prices, p, config.z_window_points)
    /\ signal' = GenerateSignal(z_score', config.z_buy_threshold,
                                config.z_sell_threshold)
    /\ UNCHANGED <<config, wallet_provider, running, wallet_value_history, pc,
                   wallet_value, halt, now, log, trade_calls, last_trade,
                   trade_details, wallet_failed, snapshots, clock_monotone, slept>>

SpecFlat == SeriesInit /\ [][FeedSamePrice]_vars

----------------------------------------------------------------------------
(* The end-to-end scenario: a window of twenty points with the default      *)
(* thresholds -2.0 and 2.0, fed a flat series that ends with one other      *)
(* price.                                                                   *)

\* Z_WINDOW_POINTS of the scenario
EndToEndWindow == 20

\* the prices of the scenario, in tenths of a USD: 70.0, 100.0 and 130.0
EndToEndPrices == {700, 1000, 1300}

EndToEndInit ==
    InitWith(ConfigOf(EndToEndWindow, << <<-2, 1>>, <<2, 1>> >>, TRUE, 60), "None")

\* one tick's update_series and generate_signal, while the series is flat and
\* the window not yet full
FeedSpike ==
    /\ ticks < EndToEndWindow
    /\ \A i \in DOMAIN prices : prices[i] = prices[1]
    /\ ticks' = ticks + 1
    /\ \E p \in EndToEndPrices :
          /\ price' = Some(p)
          /\ prices' = SeriesAfter(prices, p, config.z_window_points)
          /\ z_score' = ZScoreAfter(prices, p, config.z_window_points)
    /\ signal' = GenerateSignal(z_score', config.z_buy_threshold,
                                config.z_sell_threshold)
    /\ UNCHANGED <<config, wallet_provider, running, wallet_value_history, pc,
                   wallet_value, halt, now, log, trade_calls, last_trade,
                   trade_details, wallet_failed, snapshots, clock_monotone, slept>>

SpecEndToEnd == EndToEndInit /\ [][FeedSpike]_vars

----------------------------------------------------------------------------
(* The trade executor on its own: the calls execute_shadow_trade receives   *)
(* from run(), with a signal, any price and any portfolio value.           *)

SizingInit ==
    \E dry \in BOOLEAN, provider \in Providers :
        InitWith(ConfigOf(3, << <<-1, 1>>, <<1, 1>> >>, dry, 60), provider)

\* if signal is not None: self.execute_shadow_trade(signal, price, wallet_value)
ExecuteCall ==
    /\ pc \in {"loop", "sleep"}
    /\ ticks < MaxCalls
    /\ ticks' = ticks + 1
    /\ \E s \in {"BUY", "SELL"}, p \in SizingPrices, wv \in SizingValues :
          /\ signal' = s
          /\ price' = Some(p)
          /\ wallet_value' = wv
    /\ pc' = "execute_shadow_trade"
    /\ UNCHANGED <<config, wallet_provider, running, prices, wallet_value_history,
                   z_score, halt, now, log, trade_calls, last_trade,
                   trade_details, wallet_failed, snapshots, clock_monotone, slept>>

SpecSizing == SizingInit /\ [][ExecuteCall \/ ExecuteShadowTrade]_vars

----------------------------------------------------------------------------
(* Properties. *)

\* C1: the drawdown halt is terminal.  Once check_daily_stop_loss has returned
\* halt, run() is stopped with running false, and no later step fetches a
\* price, records a portfolio value, inserts a price, logs or trades; running
\* never goes back to true.
HaltIsTerminal ==
    [][ /\ (halt' => (pc' = "stopped" /\ ~running'))
        /\ (halt => /\ halt'
                    /\ UNCHANGED <<price, wallet_value, wallet_value_history,
                                   snapshots, prices, log, trade_calls, ticks>>)
        /\ (~running => ~running') ]_vars

HaltReached == halt /\ pc = "stopped" /\ ~running /\ log["critical"] = 1

\* the oldest surviving snapshot's value
DayStartValue == wallet_value_history[1][2]

\* C2: check_daily_stop_loss returns halt iff the day-start value is > 0 and
\* (dayStart - current) / dayStart >= 0.05, inclusive: from 1000, 940 halts,
\* 960 continues and 950 halts.
StopLossIff ==
    ticks > 0 =>
        /\ wallet_value_history # <<>>
        /\ halt <=> (/\ DayStartValue > 0
                     /\ (DayStartValue - wallet_value) * 100
                            >= DailyStopLossPct * DayStartValue)
        /\ (DayStartValue = 1000 /\ wallet_value = 940) => halt
        /\ (DayStartValue = 1000 /\ wallet_value = 960) => ~halt
        /\ (DayStartValue = 1000 /\ wallet_value = 950) => halt

HaltAtExactThreshold ==
    ticks > 0 /\ halt /\ DayStartValue = 1000 /\ wallet_value = 950

\* a configuration with a positive window size and poll interval
ValidConfig == config.z_window_points > 0 /\ config.price_poll_seconds > 0

\* C3: in a tick whose valuation fetch failed, no snapshot is recorded, the
\* drawdown is not evaluated and no trade is executed (stated for the valid
\* configurations).
ValuationFailureSkipsGuard ==
    [][ (ValidConfig /\ wallet_failed') =>
            /\ UNCHANGED <<wallet_value_history, snapshots, halt, trade_calls>>
            /\ log'["shadow"] = log["shadow"]
            /\ log'["live"] = log["live"] ]_vars

\* C4: after every call of update_series the window holds at most
\* z_window_points observations.
WindowWithinCapacity == ticks > 0 => Len(prices) <= config.z_window_points

\* C5: with non-decreasing clock readings, after each call of
\* check_daily_stop_loss every entry of the history is stamped within
\* [now - 24h, now] and the history is exactly the recorded snapshots that are
\* not older than 24 hours, in order, so that the day-start value is the oldest
\* of them; after snapshots at t0, t0+1h and t0+25h the t0 entry is gone.
GuardWindow ==
    (clock_monotone /\ ticks > 0) =>
        /\ \A i \in DOMAIN wallet_value_history :
              /\ now - DayHours <= wallet_value_history[i][1]
              /\ wallet_value_history[i][1] <= now
        /\ wallet_value_history =
              SelectSeq(snapshots, LAMBDA e : e[1] >= now - DayHours)
        /\ wallet_value_history # <<>>
        /\ (/\ Len(snapshots) = 3
            /\ snapshots[2][1] = snapshots[1][1] + 1
            /\ snapshots[3][1] = snapshots[1][1] + 25)
              => wallet_value_history = <<snapshots[2], snapshots[3]>>

OldestEvicted ==
    /\ clock_monotone
    /\ Len(snapshots) = 3
    /\ snapshots[2][1] = snapshots[1][1] + 1
    /\ snapshots[3][1] = snapshots[1][1] + 25
    /\ snapshots[1][2] # snapshots[2][2]
    /\ Len(wallet_value_history) = 2
    /\ DayStartValue = snapshots[2][2]

\* C6: in live mode a trade dispatch that raises yields exactly one shadow
\* trade record (and the error record, no live record), and run() goes on to
\* its sleep.
LiveFailureOneShadow ==
    [][ (/\ pc = "execute_shadow_trade"
         /\ trade_calls' = trade_calls + 1
         /\ last_trade'.result = "raised")
            => /\ ~config.dry_run
               /\ wallet_provider # "None"
               /\ log'["shadow"] = log["shadow"] + 1
               /\ log'["trade_error"] = log["trade_error"] + 1
               /\ log'["live"] = log["live"]
               /\ pc' = "sleep" ]_vars

DispatchRaised ==
    /\ last_trade.result = "raised"
    /\ trade_calls = 1
    /\ log["shadow"] = 1
    /\ pc = "sleep"

\* C7: with dry_run set or no wallet provider, trade() is never invoked and
\* every call of execute_shadow_trade logs exactly one shadow trade record
\* (stated for the valid configurations).
ShadowModeOneRecord ==
    [][ (/\ ValidConfig
         /\ pc = "execute_shadow_trade"
         /\ pc' # pc
         /\ (config.dry_run \/ wallet_provider = "None"))
            => /\ trade_calls' = 0
               /\ log'["shadow"] = log["shadow"] + 1 ]_vars

\* C8: while the window holds fewer than z_window_points observations after
\* the insertion, update_series yields no z-score and generate_signal yields
\* NONE, whatever the thresholds.
WarmUpNoSignal ==
    (ticks > 0 /\ Len(prices) < config.z_window_points)
        => (z_score = ZNone /\ signal = "NONE")

WarmUpWithEagerThresholds ==
    /\ ticks = 2
    /\ Len(prices) = 2
    /\ prices[1] # prices[2]
    /\ config.z_window_points = 3
    /\ config.z_buy_threshold = <<1, 1>>
    /\ signal = "NONE"

Sgn(x) == IF x < 0 THEN -1 ELSE IF x > 0 THEN 1 ELSE 0

\* the sign of z - t for the z-score z = num / sqrt(rad) and the threshold t
ZCmp(z, t) ==
    LET l == z.num * t[2]
        r == t[1]
    IN  IF Sgn(l) # Sgn(r) THEN Sgn(Sgn(l) - Sgn(r))
        ELSE Sgn(l) * Sgn(l * l - r * r * z.rad)

\* C9: generate_signal compares strictly: BUY iff z < buyZ, SELL iff z > sellZ
\* and not BUY, NONE otherwise; a z-score equal to a threshold yields NONE.
StrictThresholds ==
    (ticks > 0 /\ z_score.kind = "num") =>
        /\ signal = "BUY" <=> ZCmp(z_score, config.z_buy_threshold) < 0
        /\ signal = "SELL" <=> (/\ ZCmp(z_score, config.z_sell_threshold) > 0
                                /\ ZCmp(z_score, config.z_buy_threshold) >= 0)
        /\ signal \in {"BUY", "SELL", "NONE"}
        /\ (/\ config.z_buy_threshold[1] < 0
            /\ config.z_sell_threshold[1] > 0
            /\ \/ ZCmp(z_score, config.z_buy_threshold) = 0
               \/ ZCmp(z_score, config.z_sell_threshold) = 0)
              => signal = "NONE"

ZAtBuyThreshold ==
    /\ ticks > 0
    /\ z_score.kind = "num"
    /\ config.z_buy_threshold = <<-2, 1>>
    /\ ZCmp(z_score, config.z_buy_threshold) = 0
    /\ signal = "NONE"

\* C10: for a full window of equal prices update_series returns the z-score 0,
\* and with buyZ < 0 < sellZ the signal is NONE.
FlatWindowZero ==
    (/\ ticks > 0
     /\ Len(prices) = config.z_window_points
     /\ \A i \in DOMAIN prices : prices[i] = price.v)
        => /\ z_score = ZNum(0, 1)
           /\ (config.z_buy_threshold[1] < 0 /\ config.z_sell_threshold[1] > 0)
                 => signal = "NONE"

\* C11: once a shutdown request has been delivered (running is false), no new
\* tick is begun and no further price is fetched after the tick in flight, and,
\* where every external call and the sleep return (a sleep of negative length
\* does not), run() eventually reaches Stopped.
ShutdownStops ==
    /\ [][ ~running => (ticks' = ticks /\ pc' # "fetch_price") ]_vars
    /\ (~running /\ config.price_poll_seconds >= 0) ~> (pc = "stopped")

\* C12: a non-positive poll interval or window size is fatal at startup: no
\* tick is begun with price_poll_seconds <= 0 or z_window_points <= 0.
ConfigValidatedAtStartup == ticks > 0 => ValidConfig

\* C13: with a window of 20 and thresholds -2 and 2, none of the first 19
\* prices produces a z-score or a signal; after 19 prices of 100 the 20th price
\* gives SELL when it is 130 and BUY when it is 70, the z-score being
\* (latest - mean) / population standard deviation = 28.5 / sqrt(42.75) in size.
EndToEndSignals ==
    /\ ticks < EndToEndWindow => (z_score = ZNone /\ signal = "NONE")
    /\ (/\ ticks = EndToEndWindow
        /\ \A i \in 1..(EndToEndWindow - 1) : prices[i] = 1000)
          => /\ prices[EndToEndWindow] = 1300
                  => (z_score = ZNum(5700, 1710000) /\ signal = "SELL")
             /\ prices[EndToEndWindow] = 700
                  => (z_score = ZNum(-5700, 1710000) /\ signal = "BUY")

SpikeSell ==
    /\ ticks = EndToEndWindow
    /\ \A i \in 1..(EndToEndWindow - 1) : prices[i] = 1000
    /\ prices[EndToEndWindow] = 1300
    /\ signal = "SELL"

\* C14: execute_shadow_trade sizes the intent as notionalUSD = portfolioValue *
\* 0.02 and sizeAsset = notionalUSD / price rounded to 8 decimal places: for
\* 10000 and price 50000, 200.00 USD and 0.00400000; for 10000 and price 130,
\* 1.53846154; for 950 and price 130, 19.00 USD and 0.14615385; for 1000 and
\* price 100, 0.20000000.
SizingRule ==
    (pc = "sleep" /\ ticks > 0) =>
        /\ trade_details.signal = signal
        /\ trade_details.trade_notional_cents * 100
              = wallet_value * MaxTradeFractionPct * 100
        /\ (wallet_value = 10000 /\ price.v = 500000) =>
              /\ trade_details.trade_notional_cents = 20000
              /\ trade_details.trade_size_asset = <<0, 400000>>
        /\ (wallet_value = 10000 /\ price.v = 1300) =>
              trade_details.trade_size_asset = <<1, 53846154>>
        /\ (wallet_value = 950 /\ price.v = 1300) =>
              /\ trade_details.trade_notional_cents = 1900
              /\ trade_details.trade_size_asset = <<0, 14615385>>
        /\ (wallet_value = 1000 /\ price.v = 1000) =>
              trade_details.trade_size_asset = <<0, 20000000>>

SizedAtFiftyThousand ==
    /\ pc = "sleep"
    /\ wallet_value = 10000
    /\ price.v = 500000
    /\ trade_details.trade_size_asset = <<0, 400000>>

\* C15: when the wallet provider has no trade method, a live intent is treated
\* as a failed live attempt is: execute_shadow_trade logs one shadow-trade
\* record, as the exception path does, and returns without an error.
NoTradeCapabilityFallsBack ==
    [][ (/\ pc = "execute_shadow_trade"
         /\ ~config.dry_run
         /\ wallet_provider = "NoTrade"
         /\ price.v # 0)
            => /\ pc' = "sleep"
               /\ log'["shadow"] = log["shadow"] + 1
               /\ trade_calls' = trade_calls ]_vars

\* C16: a shutdown request that arrives during the sleep between two ticks, or
\* during the sleep after a failed price fetch, interrupts the sleep: the sleep
\* ends without the poll interval having been slept, and the loop test follows
\* (stated for a poll interval time.sleep accepts).
SleepIsInterruptible ==
    [][ (/\ pc \in {"sleep", "sleep_retry"}
         /\ ~running
         /\ config.price_poll_seconds >= 0
         /\ pc' # pc)
            => /\ pc' = "loop"
               /\ slept' = slept ]_vars

\* C17: a tick whose price fetch fails changes no state: the price window and
\* the drawdown history stay as they are, no portfolio value is fetched,
\* nothing is traded, only the failure is logged; the loop then sleeps one poll
\* interval and goes back to the loop test, from where the fetch is retried.
FailedFetchRetries ==
    [][ /\ (pc = "fetch_price" /\ pc' = "sleep_retry")
              => /\ UNCHANGED <<prices, wallet_value_history, snapshots,
                                wallet_value, halt, trade_calls, last_trade,
                                trade_details>>
                 /\ log' = [log EXCEPT !["price_error"] = @ + 1]
        /\ (pc = "sleep_retry" /\ pc' # pc)
              => /\ pc' = "loop"
                 /\ slept' = slept + config.price_poll_seconds
                 /\ UNCHANGED <<prices, wallet_value_history, snapshots,
                                wallet_value, halt, trade_calls, last_trade,
                                trade_details, log>> ]_vars

\* the ticks that have passed the drawdown guard so far
GuardPasses == Len(snapshots) - (IF halt THEN 1 ELSE 0)

\* C18: the steps of a tick occur in the order fetch price, fetch portfolio
\* value, record and evaluate the guard, insert the price, derive the signal
\* and log the tick summary, execute.  A tick that halts inserts no price.
\* Every tick that passes the guard logs exactly one tick summary, with or
\* without a signal, and no trade record or trade call of a tick comes before
\* its summary.
TickOrder ==
    [][ /\ pc = "fetch_price" => pc' \in {"fetch_price", "sleep_retry", "get_wallet_value"}
        /\ pc = "get_wallet_value" => pc' \in {"get_wallet_value", "check_daily_stop_loss"}
        /\ pc = "check_daily_stop_loss"
              => pc' \in {"check_daily_stop_loss", "stopped", "update_series"}
        /\ pc = "update_series" => pc' \in {"update_series", "generate_signal"}
        /\ pc = "generate_signal"
              => pc' \in {"generate_signal", "execute_shadow_trade", "sleep"}
        /\ pc = "execute_shadow_trade"
              => pc' \in {"execute_shadow_trade", "sleep", "crashed"}
        /\ wallet_value' # wallet_value => pc = "get_wallet_value"
        /\ snapshots' # snapshots => pc = "check_daily_stop_loss"
        /\ prices' # prices => (pc = "update_series" /\ ~halt')
        /\ halt' => prices' = prices
        /\ log'["tick"] # log["tick"]
              => (pc = "generate_signal" /\ log'["tick"] = log["tick"] + 1)
        /\ (pc = "generate_signal" /\ pc' # pc) => log'["tick"] = log["tick"] + 1
        /\ pc' \in {"execute_shadow_trade", "sleep"} => log'["tick"] = GuardPasses'
        /\ (\/ trade_calls' # trade_calls
            \/ log'["shadow"] # log["shadow"]
            \/ log'["live"] # log["live"])
              => (pc = "execute_shadow_trade" /\ log["tick"] = GuardPasses) ]_vars

TickLoggedWithAndWithoutSignal ==
    /\ pc = "sleep"
    /\ log["tick"] = 2
    /\ log["live"] = 1
    /\ trade_calls = 1

\* C19: run() leaves the loop only through a drawdown halt or a shutdown
\* request: whatever number the feed returns as the price, 0 included, and
\* whatever the portfolio value, no tick ends with an unhandled error (stated
\* for a configuration with a positive window size and poll interval).
NoUnhandledError == ValidConfig => pc # "crashed"

\* C20: the trade collaborator is called at most once per tick, and only in a
\* tick whose price fetch succeeded, whose guard returned continue and whose
\* signal is BUY or SELL; the call carries that signal and the size computed
\* from the price and the portfolio value of the same tick.  (A call is made
\* in the one execute step of a tick, which is reached only through that tick's
\* fetch, valuation, guard, insertion and signal, in this order, and the
\* price, portfolio value and signal are assigned only there.)
TradeCallDiscipline ==
    [][ /\ trade_calls' # trade_calls
              => /\ trade_calls' = trade_calls + 1
                 /\ pc = "execute_shadow_trade"
                 /\ pc' = "sleep"
                 /\ price.some
                 /\ ~halt
                 /\ signal \in {"BUY", "SELL"}
                 /\ last_trade'.side = signal
                 /\ last_trade'.amount = QuoteAmount(wallet_value, price.v)
                 /\ log["tick"] = GuardPasses
        /\ ticks' # ticks
              => (pc = "loop" /\ pc' = "fetch_price" /\ ticks' = ticks + 1)
        /\ (pc' = "fetch_price" /\ pc # pc') => ticks' = ticks + 1
        /\ (pc' = "get_wallet_value" /\ pc # pc')
              => (pc = "fetch_price" /\ price'.some)
        /\ (pc' = "check_daily_stop_loss" /\ pc # pc') => pc = "get_wallet_value"
        /\ (pc' = "update_series" /\ pc # pc')
              => (pc = "check_daily_stop_loss" /\ ~halt')
        /\ (pc' = "generate_signal" /\ pc # pc') => pc = "update_series"
        /\ (pc' = "execute_shadow_trade" /\ pc # pc')
              => (pc = "generate_signal" /\ signal' \in {"BUY", "SELL"})
        /\ pc # "fetch_price" => price' = price
        /\ pc # "get_wallet_value" => wallet_value' = wallet_value
        /\ pc # "generate_signal" => signal' = signal ]_vars

LiveTradeCalled ==
    /\ pc = "sleep"
    /\ trade_calls = 1
    /\ last_trade.result = "tx"
    /\ last_trade.side = "SELL"
    /\ ticks = 2

====
